---- MODULE Spec2Model ----
(***************************************************************************)
(* A model of sudoku-manager: the Sudoku class (sudoku.py) with its Cell   *)
(* (cell.py) and Area (area.py) helpers.  A Sudoku instance is a record    *)
(* whose fields carry the names of the Python attributes.  Python lists    *)
(* are sequences (1-based here, 0-based in the source), a Cell is known by *)
(* its position in "cells", and a set that Python shares by reference      *)
(* between "history" and "complete_history" is an index into "sets".       *)
(***************************************************************************)
EXTENDS Integers, Sequences, FiniteSets, TLC

VARIABLES
    arg,         \* the argument of the call: the grid of Sudoku(grid), the list
                 \* of create_from_81, the level of generate_grid
    sudoku,      \* the Sudoku instance (Unbuilt before/without construction)
    pc,          \* position of the caller: new / ready / loop / done / IndexError
    randomly,    \* solve's "randomly" argument
    time_limit,  \* solve's "time_limit" argument: <<>> is None, <<t>> is t
    elapsed,     \* last reading of perf_counter() - self.time
    exit,        \* how the while loop of solve was left
    twin,        \* a second instance built from the same grid (two-run checks)
    api,         \* bookkeeping of direct write_and_log / undo calls
    gen          \* generate_grid: where it is, its random draws, its new_grid

vars == <<arg, sudoku, pc, randomly, time_limit, elapsed, exit, twin, api, gen>>

----------------------------------------------------------------------------
(* Bounds of the model *)

\* most cells left empty in an input grid
MaxHoles == 3
\* largest clock reading and largest time limit, in clock ticks
MaxElapsed == 1
\* solve iterations are explored while total_moves is below this
MaxTotalMoves == 8

\* most direct write_and_log calls in a row
MaxApiWrites == 3

\* input grids have between 9 - ShapeSlack and 9 + ShapeSlack rows, and rows
\* of as many elements
ShapeSlack == 1

\* a flat list passed to create_from_81 has 81 - FlatSlack .. 81 + FlatSlack
\* elements
FlatSlack == 1

\* the integers given as the value of a cell run from -1 to MaxSeed
MaxSeed == 10

\* generate_grid is called with the levels 0 (not a level) .. MaxLevel
MaxLevel == 2
\* the random draws of generate_grid start its removals at 0 .. MaxOffset
MaxOffset == 2
\* the solves of generate_grid are explored while total_moves is below this
GenMaxMoves == 160

----------------------------------------------------------------------------
(* cell.py *)

NUMBERS == 1..9

None == 0

\* Cell.__init__: data outside 1..9 becomes None
Cell(row, column, square, data) ==
    [data   |-> IF data \in NUMBERS THEN data ELSE None,
     row    |-> row,
     column |-> column,
     square |-> square]

----------------------------------------------------------------------------
(* area.py: an Area is named by its shape and num; its cells are looked up *)
(* in the instance, as Area.cells holds references to the same Cell objects *)

AreaCells(cells, shape, num) ==
    {k \in DOMAIN cells :
        CASE shape = "row"    -> cells[k].row = num
          [] shape = "column" -> cells[k].column = num
          [] shape = "square" -> cells[k].square = num}

taken_numbers(cells, shape, num) ==
    {cells[k].data : k \in {j \in AreaCells(cells, shape, num) : cells[j].data # None}}

available_numbers(cells, shape, num) == NUMBERS \ taken_numbers(cells, shape, num)

\* Area.__len__: len(self.taken_numbers)
Area_len(cells, shape, num) == Cardinality(taken_numbers(cells, shape, num))

\* Area.SHAPES
SHAPES == {"row", "column", "square"}

\* self.areas = self.rows + self.columns + self.squares, each built over range(9)
Areas == {<<shape, num>> : shape \in SHAPES, num \in 0..8}

\* cell.areas, as set in generate_areas: its row, its column, its square
CellAreas(cells, k) ==
    {<<"row", cells[k].row>>, <<"column", cells[k].column>>, <<"square", cells[k].square>>}

----------------------------------------------------------------------------
(* sudoku.py: construction *)

Unbuilt == [status |-> "unbuilt"]

shape_is_valid(grid) ==
    IF Len(grid) = 9
    THEN \A x \in 1..Len(grid) : Len(grid[x]) = 9
    ELSE TRUE

RECURSIVE CellsFrom_squares_by_column(_, _)
\* a slip of generate_cells: the squares are numbered down the columns
CellsFrom_squares_by_column(grid, x) ==
    IF x > Len(grid) THEN <<>>
    ELSE [y \in 1..Len(grid[x]) |->
             Cell(x - 1, y - 1, ((x - 1) \div 3) + ((y - 1) \div 3) * 3, grid[x][y])]
         \o CellsFrom_squares_by_column(grid, x + 1)

RECURSIVE CellsFrom(_, _)
\* generate_cells, rows x..: one Cell per element, row after row
CellsFrom(grid, x) ==
    IF x > Len(grid) THEN <<>>
    ELSE [y \in 1..Len(grid[x]) |->
             Cell(x - 1, y - 1, ((x - 1) \div 3) * 3 + ((y - 1) \div 3), grid[x][y])]
         \o CellsFrom(grid, x + 1)

generate_cells(grid) == CellsFrom(grid, 1)

RECURSIVE FilledFrom(_, _)
\* a slip of EmptyFrom: "is not None" for "is None"
FilledFrom(cells, k) ==
    IF k > Len(cells) THEN <<>>
    ELSE (IF cells[k].data # None THEN <<k>> ELSE <<>>) \o FilledFrom(cells, k + 1)

RECURSIVE EmptyFrom(_, _)
\* [cell for cell in self if cell.data is None], from position k on
EmptyFrom(cells, k) ==
    IF k > Len(cells) THEN <<>>
    ELSE (IF cells[k].data = None THEN <<k>> ELSE <<>>) \o EmptyFrom(cells, k + 1)

\* Sudoku.__init__ after the shape check
New(grid) ==
    LET cells == generate_cells(grid)
        empty == EmptyFrom(cells, 1)
    IN [grid             |-> grid,
        cells            |-> cells,
        empty_cells      |-> empty,
        required_moves   |-> Len(empty),
        moves            |-> 0,
        total_moves      |-> 0,
        history          |-> <<>>,
        complete_history |-> <<>>,
        sets             |-> <<>>,
        status           |-> "unset",
        solved_grid      |-> <<>>]

\* a slip of create_from_81: the list is cut into columns instead of rows
create_from_81_by_columns(array) ==
    IF Len(array) # 81
    THEN [raised |-> "IndexError", self |-> Unbuilt]
    ELSE LET grid == [x \in 1..9 |-> [y \in 1..9 |-> array[(y - 1) * 9 + x]]]
         IN IF shape_is_valid(grid)
            THEN [raised |-> "none", self |-> New(grid)]
            ELSE [raised |-> "IndexError", self |-> Unbuilt]

\* the class method create_from_81: what it raises and the instance it returns;
\* array[i:i+9] for i = 0, 9, .., 72 are the slices of 9, then cls(grid)
create_from_81(array) ==
    IF Len(array) # 81
    THEN [raised |-> "IndexError", self |-> Unbuilt]
    ELSE LET grid == [x \in 1..9 |-> SubSeq(array, (x - 1) * 9 + 1, x * 9)]
         IN IF shape_is_valid(grid)
            THEN [raised |-> "none", self |-> New(grid)]
            ELSE [raised |-> "IndexError", self |-> Unbuilt]

\* the "solved" property
solved(self) == self.moves = self.required_moves

----------------------------------------------------------------------------
(* cell.py on any Python value.  A value is a record with its type: an int  *)
(* or a bool with its value, a float in tenths, a str as its characters,    *)
(* None, a list.  Cell above is lines 70-76 on a value that is an int       *)

DigitChars == <<"0", "1", "2", "3", "4", "5", "6", "7", "8", "9">>

DigitOf(c) == (CHOOSE i \in 1..10 : DigitChars[i] = c) - 1

IsDigits(chars) ==
    /\ chars # <<>>
    /\ \A i \in 1..Len(chars) : \E j \in 1..10 : DigitChars[j] = chars[i]

RECURSIVE Decimal(_)
Decimal(chars) ==
    IF chars = <<>> THEN 0
    ELSE 10 * Decimal(SubSeq(chars, 1, Len(chars) - 1)) + DigitOf(chars[Len(chars)])

\* int(data): the integer, or the exception it raises
int(data) ==
    CASE data.type = "int" -> [raised |-> "none", value |-> data.value]
      [] data.type = "bool" ->
            [raised |-> "none", value |-> IF data.value THEN 1 ELSE 0]
      [] data.type = "float" ->
            [raised |-> "none",
             value |-> IF data.tenths >= 0 THEN data.tenths \div 10
                       ELSE 0 - ((0 - data.tenths) \div 10)]
      [] data.type = "str" ->
            LET signed == data.text # <<>> /\ data.text[1] \in {"-", "+"}
                body == IF signed THEN Tail(data.text) ELSE data.text
            IN IF IsDigits(body)
               THEN [raised |-> "none",
                     value |-> IF signed /\ data.text[1] = "-"
                               THEN 0 - Decimal(body) ELSE Decimal(body)]
               ELSE [raised |-> "ValueError", value |-> 0]
      [] OTHER -> [raised |-> "TypeError", value |-> 0]

\* Cell.__init__ on any value: what it raises and the data the cell holds.
\* int(data) is tried and its ValueError or TypeError passed over; then
\* "data not in self.NUMBERS" hashes data, which a list does not allow
CellData(data) ==
    IF int(data).raised = "none"
    THEN [raised |-> "none", data |-> Cell(0, 0, 0, int(data).value).data]
    ELSE IF data.type = "list"
         THEN [raised |-> "TypeError", data |-> None]
         ELSE [raised |-> "none", data |-> None]

\* Sudoku(grid) on a 9x9 grid of any values
NewOfValues(grid) ==
    IF \E x \in 1..9, y \in 1..9 : CellData(grid[x][y]).raised # "none"
    THEN [raised |-> "TypeError", self |-> Unbuilt]
    ELSE [raised |-> "none",
          self |-> [New([x \in 1..9 |-> [y \in 1..9 |-> CellData(grid[x][y]).data]])
                       EXCEPT !.grid = grid]]

----------------------------------------------------------------------------
(* sudoku.py: the solver *)

\* a slip of get_available_cell_values: the column of the cell is not looked at
available_without_column(self, cell) ==
    NUMBERS \ (taken_numbers(self.cells, "row", self.cells[cell].row)
               \cup taken_numbers(self.cells, "square", self.cells[cell].square))

get_available_cell_values(self, cell) ==
    NUMBERS \ UNION {taken_numbers(self.cells, a[1], a[2]) : a \in CellAreas(self.cells, cell)}

Min(S) == CHOOSE v \in S : \A w \in S : v <= w

\* set.pop() as the language describes it: an arbitrary element
SetPopAny(S) == S

\* set.pop() on a set of the digits 1..9: CPython keeps small ints at the slot
\* of their value and pops the first used slot, so the outcome is the smallest
SetPop(S) == {Min(S)}

\* a slip of write_and_log: the move is logged but "moves" is not counted
write_and_log_uncounted(self, cell, data, other_available_values) ==
    LET entry == [action |-> "write", cell |-> cell, data |-> data,
                  values |-> other_available_values]
    IN [self EXCEPT !.total_moves = @ + 1,
                    !.cells[cell].data = data,
                    !.history = Append(@, entry),
                    !.complete_history = Append(@, entry)]

\* a slip of write_and_log: the move is logged but "total_moves" is not counted
write_and_log_untotalled(self, cell, data, other_available_values) ==
    LET entry == [action |-> "write", cell |-> cell, data |-> data,
                  values |-> other_available_values]
    IN [self EXCEPT !.moves = @ + 1,
                    !.cells[cell].data = data,
                    !.history = Append(@, entry),
                    !.complete_history = Append(@, entry)]

write_and_log(self, cell, data, other_available_values) ==
    LET entry == [action |-> "write", cell |-> cell, data |-> data,
                  values |-> other_available_values]
    IN [self EXCEPT !.moves = @ + 1,
                    !.total_moves = @ + 1,
                    !.cells[cell].data = data,
                    !.history = Append(@, entry),
                    !.complete_history = Append(@, entry)]

\* a slip of undo: a move without other values is taken back, but undo does
\* not go back once more
undo_without_cascade(self) ==
    LET s1 == [self EXCEPT !.moves = @ - 1] IN
    IF s1.history = <<>>
    THEN {[self |-> s1, ret |-> "True"]}
    ELSE
        LET last == s1.history[Len(s1.history)]
            cell == last.cell
            vid  == last.values
            s2 == [s1 EXCEPT
                     !.history = SubSeq(@, 1, Len(@) - 1),
                     !.complete_history =
                         Append(@, [action |-> "undo", cell |-> cell,
                                    data |-> s1.cells[cell].data, values |-> vid])]
        IN IF s2.sets[vid] = {}
           THEN {[self |-> [s2 EXCEPT !.cells[cell].data = None,
                                      !.empty_cells = <<cell>> \o @],
                  ret  |-> "None"]}
           ELSE {[self |-> write_and_log([s2 EXCEPT !.sets[vid] = @ \ {value}],
                                         cell, value, vid),
                  ret  |-> "None"] : value \in SetPop(s2.sets[vid])}

\* a slip of undo: the move is taken back but its other values are never tried
undo_without_retry(self) ==
    LET s1 == [self EXCEPT !.moves = @ - 1] IN
    IF s1.history = <<>>
    THEN {[self |-> s1, ret |-> "True"]}
    ELSE
        LET last == s1.history[Len(s1.history)]
        IN {[self |-> [s1 EXCEPT
                         !.history = SubSeq(@, 1, Len(@) - 1),
                         !.complete_history =
                             Append(@, [action |-> "undo", cell |-> last.cell,
                                        data |-> s1.cells[last.cell].data,
                                        values |-> last.values]),
                         !.cells[last.cell].data = None,
                         !.empty_cells = <<last.cell>> \o @],
             ret |-> "None"]}

RECURSIVE undo_returning_inner(_)
\* a slip of undo: "return self.undo()" in the cascade, so that a cascade
\* which empties the history hands back the inner call's True
undo_returning_inner(self) ==
    LET s1 == [self EXCEPT !.moves = @ - 1] IN
    IF s1.history = <<>>
    THEN {[self |-> s1, ret |-> "True"]}
    ELSE
        LET last == s1.history[Len(s1.history)]
            cell == last.cell
            vid  == last.values
            s2 == [s1 EXCEPT
                     !.history = SubSeq(@, 1, Len(@) - 1),
                     !.complete_history =
                         Append(@, [action |-> "undo", cell |-> cell,
                                    data |-> s1.cells[cell].data, values |-> vid])]
        IN IF s2.sets[vid] = {}
           THEN undo_returning_inner([s2 EXCEPT !.cells[cell].data = None,
                                                !.empty_cells = <<cell>> \o @])
           ELSE {[self |-> write_and_log([s2 EXCEPT !.sets[vid] = @ \ {value}],
                                         cell, value, vid),
                  ret  |-> "None"] : value \in SetPop(s2.sets[vid])}

RECURSIVE undo_requeue_at_end(_)
\* a slip of undo: the cleared cell goes to the end of empty_cells
\* (append) instead of the front (insert(0, cell))
undo_requeue_at_end(self) ==
    LET s1 == [self EXCEPT !.moves = @ - 1] IN
    IF s1.history = <<>>
    THEN {[self |-> s1, ret |-> "True"]}
    ELSE
        LET last == s1.history[Len(s1.history)]
            cell == last.cell
            vid  == last.values
            s2 == [s1 EXCEPT
                     !.history = SubSeq(@, 1, Len(@) - 1),
                     !.complete_history =
                         Append(@, [action |-> "undo", cell |-> cell,
                                    data |-> s1.cells[cell].data, values |-> vid])]
        IN IF s2.sets[vid] = {}
           THEN LET s3 == [s2 EXCEPT !.cells[cell].data = None,
                                     !.empty_cells = Append(@, cell)]
                IN {[self |-> o.self, ret |-> "None"] : o \in undo_requeue_at_end(s3)}
           ELSE {[self |-> write_and_log([s2 EXCEPT !.sets[vid] = @ \ {value}],
                                         cell, value, vid),
                  ret  |-> "None"] : value \in SetPop(s2.sets[vid])}

RECURSIVE undo(_)
\* every outcome [self, ret] of one call of undo; ret is "True" or "None"
undo(self) ==
    LET s1 == [self EXCEPT !.moves = @ - 1] IN
    IF s1.history = <<>>
    THEN {[self |-> s1, ret |-> "True"]}
    ELSE
        LET last == s1.history[Len(s1.history)]
            cell == last.cell
            vid  == last.values
            s2 == [s1 EXCEPT
                     !.history = SubSeq(@, 1, Len(@) - 1),
                     !.complete_history =
                         Append(@, [action |-> "undo", cell |-> cell,
                                    data |-> s1.cells[cell].data, values |-> vid])]
        IN IF s2.sets[vid] = {}
           THEN LET s3 == [s2 EXCEPT !.cells[cell].data = None,
                                     !.empty_cells = <<cell>> \o @]
                IN {[self |-> o.self, ret |-> "None"] : o \in undo(s3)}
           ELSE {[self |-> write_and_log([s2 EXCEPT !.sets[vid] = @ \ {value}],
                                         cell, value, vid),
                  ret  |-> "None"] : value \in SetPop(s2.sets[vid])}

\* the end of solve, after the loop: status and the 9-cell slices of "cells"
Finish(self) ==
    LET n == Len(self.cells)
        RowLen(x) == IF n >= x * 9 THEN 9
                     ELSE IF n > (x - 1) * 9 THEN n - (x - 1) * 9 ELSE 0
    IN [self EXCEPT !.status = "solved",
                    !.solved_grid = [x \in 1..9 |-> [y \in 1..RowLen(x) |->
                                        self.cells[(x - 1) * 9 + y].data]]]

\* "time_limit and float(time_limit) <= ..." : None and 0 are both falsy
LimitSet(tl) == tl # <<>> /\ tl[1] # 0

\* the clock readings an iteration can see: perf_counter() never goes back
Readings == elapsed..MaxElapsed

\* one pass of the loop body that was not stopped by the time limit, on an
\* instance that is not solved: every outcome [self, exit]
Iteration(self, rand) ==
    IF self.empty_cells = <<>>
    THEN {[self |-> self, exit |-> "IndexError"]}
    ELSE
        LET cell == Head(self.empty_cells)
            values == get_available_cell_values(self, cell)
        IN IF values = {}
           THEN {IF o.ret = "True"
                 THEN [self |-> [o.self EXCEPT !.status = "no_valid_solution"],
                       exit |-> "no_valid_solution"]
                 ELSE [self |-> o.self, exit |-> "none"] : o \in undo(self)}
           ELSE {[self |-> write_and_log(
                              [self EXCEPT !.empty_cells = Tail(@),
                                           !.sets = Append(@, values \ {value})],
                              cell, value, Len(self.sets) + 1),
                  exit |-> "none"] :
                    value \in IF rand THEN values ELSE SetPop(values)}

\* where the caller is after an iteration that ended with "exit"
After(ex) ==
    CASE ex = "none" -> "loop"
      [] ex = "IndexError" -> "IndexError"
      [] OTHER -> "done"

Landing(o) == IF After(o.exit) = "done" THEN Finish(o.self) ELSE o.self

----------------------------------------------------------------------------
(* sudoku.py: generate_grid.  The random module is a record "rng" of the    *)
(* draws one pass of the "while True" loop makes: the digits of the three   *)
(* diagonal squares, how choice() picks in solve(randomly=True), and where  *)
(* the picks of the removal start                                           *)

\* DIFFICULTIES, min_time and max_time in ticks of 0.005 s
DIFFICULTIES ==
    << [name |-> "easy",    min_time |-> 0, max_time |-> 1,  empty_cells |-> 45],
       [name |-> "medium",  min_time |-> 1, max_time |-> 2,  empty_cells |-> 52],
       [name |-> "hard",    min_time |-> 2, max_time |-> 4,  empty_cells |-> 59],
       [name |-> "harder",  min_time |-> 4, max_time |-> 8,  empty_cells |-> 66],
       [name |-> "hardest", min_time |-> 8, max_time |-> 12, empty_cells |-> 70] >>

Max(S) == CHOOSE v \in S : \A w \in S : v >= w

\* choice(list(values)) in solve(randomly=True), as the draws have it
choice(chooser, values) == IF chooser = "smallest" THEN Min(values) ELSE Max(values)

\* the grid with the diagonal squares filled: blocks[b] is the order in which
\* choice(numbers) gave the nine digits of square b, row after row
SeedGrid(blocks) ==
    [x \in 1..9 |-> [y \in 1..9 |->
        IF (x - 1) \div 3 = (y - 1) \div 3
        THEN blocks[((x - 1) \div 3) + 1][((x - 1) % 3) * 3 + ((y - 1) % 3) + 1]
        ELSE 0]]

\* coordinates = [(x, y) for x in range(9) for y in range(9)]
Coordinates == [k \in 1..81 |-> <<((k - 1) \div 9) + 1, ((k - 1) % 9) + 1>>]

\* a slip of the removal: the position picked stays in the list
list_keep(list, item) == list

\* list.remove(item): the list without the first item equal to it
list_remove(list, item) ==
    LET k == CHOOSE i \in DOMAIN list :
                 list[i] = item /\ \A j \in 1..(i - 1) : list[j] # item
    IN SubSeq(list, 1, k - 1) \o SubSeq(list, k + 1, Len(list))

\* the index choice(coordinates) draws at pass i of the removal loop
Pick(rng, i, len) == ((rng.offset + 30 * i) % len) + 1

RECURSIVE Emptied(_, _, _, _, _)
\* passes i .. n - 1 of "for i in range(level_info["empty_cells"])"
Emptied(new_grid, coordinates, i, n, rng) ==
    IF i >= n THEN new_grid
    ELSE LET pos == coordinates[Pick(rng, i, Len(coordinates))]
         IN Emptied([new_grid EXCEPT ![pos[1]][pos[2]] = None],
                    list_remove(coordinates, pos), i + 1, n, rng)

----------------------------------------------------------------------------
(* Input grids: a completed grid with some cells emptied and at most one   *)
(* given digit overwritten                                                  *)

Base ==
    << <<5, 3, 4, 6, 7, 8, 9, 1, 2>>,
       <<6, 7, 2, 1, 9, 5, 3, 4, 8>>,
       <<1, 9, 8, 3, 4, 2, 5, 6, 7>>,
       <<8, 5, 9, 7, 6, 1, 4, 2, 3>>,
       <<4, 2, 6, 8, 5, 3, 7, 9, 1>>,
       <<7, 1, 3, 9, 2, 4, 8, 5, 6>>,
       <<9, 6, 1, 5, 3, 7, 2, 8, 4>>,
       <<2, 8, 7, 4, 1, 9, 6, 3, 5>>,
       <<3, 4, 5, 2, 8, 6, 1, 7, 9>> >>

\* positions <<x, y>> (1-based) that may be emptied / overwritten
HoleCells == {<<1, 1>>, <<1, 3>>, <<1, 8>>, <<1, 9>>, <<2, 3>>, <<3, 1>>}

CorruptCells == {<<1, 2>>, <<3, 8>>}

GridOf(holes, over) ==
    [x \in 1..9 |-> [y \in 1..9 |->
        IF <<x, y>> \in holes THEN None
        ELSE IF over # <<>> /\ over[1] = <<x, y>> THEN over[2]
        ELSE Base[x][y]]]

InputGrids ==
    {GridOf(holes, over) :
        holes \in {h \in SUBSET HoleCells : Cardinality(h) <= MaxHoles},
        over \in {<<>>} \cup {<<p, d>> : p \in CorruptCells, d \in NUMBERS}}

TimeLimits == {<<>>} \cup {<<t>> : t \in 0..MaxElapsed}

NoApi == [calls |-> <<>>, undos |-> 0, ret |-> "-"]

\* generate_grid is not running
NoGen == [phase |-> "-", rng |-> <<>>, new_grid |-> <<>>]

----------------------------------------------------------------------------
(* Specification: a Sudoku built from an input grid, then solve() *)

Init ==
    /\ arg \in InputGrids
    /\ sudoku = New(arg)
    /\ pc = "ready"
    /\ randomly = FALSE
    /\ time_limit = <<>>
    /\ elapsed = 0
    /\ exit = "none"
    /\ twin = Unbuilt
    /\ api = NoApi
    /\ gen = NoGen

\* solve(randomly, time_limit) is called: the timer starts, the loop is entered
Solve ==
    /\ pc = "ready"
    /\ \E r \in BOOLEAN, tl \in TimeLimits :
          /\ randomly' = r
          /\ time_limit' = tl
    /\ pc' = "loop"
    /\ UNCHANGED <<arg, sudoku, elapsed, exit, twin, api, gen>>

\* "while not self.solved" is false: the loop ends and solve finishes
ExitSolved ==
    /\ pc = "loop"
    /\ solved(sudoku)
    /\ sudoku' = Finish(sudoku)
    /\ pc' = "done"
    /\ exit' = "solved"
    /\ UNCHANGED <<arg, randomly, time_limit, elapsed, twin, api, gen>>

\* the time-limit check breaks out of the loop
ExitTimeLimit ==
    /\ pc = "loop"
    /\ ~solved(sudoku)
    /\ LimitSet(time_limit)
    /\ \E t \in Readings :
          /\ time_limit[1] <= t
          /\ elapsed' = t
    /\ sudoku' = Finish([sudoku EXCEPT !.status = "time_limit_exceeded"])
    /\ pc' = "done"
    /\ exit' = "time_limit_exceeded"
    /\ UNCHANGED <<arg, randomly, time_limit, twin, api, gen>>

\* the time-limit check lets the iteration go on
Tick ==
    IF LimitSet(time_limit)
    THEN \E t \in Readings : time_limit[1] > t /\ elapsed' = t
    ELSE elapsed' = elapsed

\* an iteration that finds candidates for the first empty cell and writes one
Write ==
    /\ pc = "loop"
    /\ ~solved(sudoku)
    /\ sudoku.total_moves < MaxTotalMoves
    /\ sudoku.empty_cells # <<>>
    /\ get_available_cell_values(sudoku, Head(sudoku.empty_cells)) # {}
    /\ Tick
    /\ \E o \in Iteration(sudoku, randomly) :
          /\ sudoku' = Landing(o)
          /\ pc' = After(o.exit)
          /\ exit' = o.exit
    /\ UNCHANGED <<arg, randomly, time_limit, twin, api, gen>>

\* an iteration that cannot write: it calls undo (or finds no cell to read)
Backtrack ==
    /\ pc = "loop"
    /\ ~solved(sudoku)
    /\ sudoku.total_moves < MaxTotalMoves
    /\ sudoku.empty_cells # <<>> =>
          get_available_cell_values(sudoku, Head(sudoku.empty_cells)) = {}
    /\ Tick
    /\ \E o \in Iteration(sudoku, randomly) :
          /\ sudoku' = Landing(o)
          /\ pc' = After(o.exit)
          /\ exit' = o.exit
    /\ UNCHANGED <<arg, randomly, time_limit, twin, api, gen>>

Next == Solve \/ ExitSolved \/ ExitTimeLimit \/ Write \/ Backtrack

Spec == Init /\ [][Next]_vars

----------------------------------------------------------------------------
(* Specification: write_and_log and undo called directly on a new instance, *)
(* some writes and then at most as many undos.  "api" records the calls:    *)
(* the arguments of each write, the number of undos, undo's last return.    *)

ApiHoles == {<<1, 1>>, <<1, 3>>}

ApiGrids == {GridOf(ApiHoles, <<>>), GridOf({<<1, 1>>}, <<>>)}

\* the cells the calls write to: positions of "cells" for <<1, 1>> and <<1, 3>>
ApiCells == {1, 3}

ApiDigits == {1, 2}

ApiOthers == {{}, {3}, {3, 4}}

ApiInit ==
    /\ arg \in ApiGrids
    /\ sudoku = New(arg)
    /\ pc = "ready"
    /\ randomly = FALSE
    /\ time_limit = <<>>
    /\ elapsed = 0
    /\ exit = "none"
    /\ twin = Unbuilt
    /\ api = NoApi
    /\ gen = NoGen

\* sudoku.write_and_log(cell, data, other_available_values), the set a new object
ApiWrite ==
    /\ pc = "ready"
    /\ api.undos = 0
    /\ Len(api.calls) < MaxApiWrites
    /\ \E cell \in ApiCells, data \in ApiDigits, other \in ApiOthers :
          /\ sudoku' = write_and_log([sudoku EXCEPT !.sets = Append(@, other)],
                                     cell, data, Len(sudoku.sets) + 1)
          /\ api' = [api EXCEPT !.calls = Append(@, [cell |-> cell, data |-> data,
                                                     values |-> other])]
    /\ UNCHANGED <<arg, pc, randomly, time_limit, elapsed, exit, twin, gen>>

\* sudoku.undo()
ApiUndo ==
    /\ pc = "ready"
    /\ api.undos < Len(api.calls)
    /\ \E o \in undo(sudoku) :
          /\ sudoku' = o.self
          /\ api' = [api EXCEPT !.undos = @ + 1, !.ret = o.ret]
    /\ UNCHANGED <<arg, pc, randomly, time_limit, elapsed, exit, twin, gen>>

ApiNext == ApiWrite \/ ApiUndo

ApiSpec == ApiInit /\ [][ApiNext]_vars

----------------------------------------------------------------------------
(* Specification: two instances built from the same grid, each running     *)
(* solve(randomly=False) without time limit, one loop pass of each at a    *)
(* time.  "twin" holds the second instance and its caller's position.      *)

TwinInit ==
    /\ arg \in InputGrids
    /\ sudoku = New(arg)
    /\ twin = [self |-> New(arg), pc |-> "ready"]
    /\ pc = "ready"
    /\ randomly = FALSE
    /\ time_limit = <<>>
    /\ elapsed = 0
    /\ exit = "none"
    /\ api = NoApi
    /\ gen = NoGen

\* one evaluation of the loop condition and, if it holds, one pass of the body
Pass(self) ==
    IF solved(self)
    THEN {[self |-> Finish(self), pc |-> "done"]}
    ELSE {[self |-> Landing(o), pc |-> After(o.exit)] : o \in Iteration(self, FALSE)}

\* where a run is after its next pass, if it is in the loop
Advance(self, at) ==
    IF at = "loop" /\ self.total_moves < MaxTotalMoves
    THEN Pass(self)
    ELSE {[self |-> self, pc |-> at]}

TwinSolve ==
    /\ pc = "ready"
    /\ pc' = "loop"
    /\ twin' = [twin EXCEPT !.pc = "loop"]
    /\ UNCHANGED <<arg, sudoku, randomly, time_limit, elapsed, exit, api, gen>>

TwinStep ==
    /\ pc = "loop" \/ twin.pc = "loop"
    /\ \E a \in Advance(sudoku, pc), b \in Advance(twin.self, twin.pc) :
          /\ sudoku' = a.self
          /\ pc' = a.pc
          /\ twin' = [self |-> b.self, pc |-> b.pc]
    /\ <<sudoku', pc', twin'>> # <<sudoku, pc, twin>>
    /\ UNCHANGED <<arg, randomly, time_limit, elapsed, exit, api, gen>>

TwinNext == TwinSolve \/ TwinStep

TwinSpec == TwinInit /\ [][TwinNext]_vars

----------------------------------------------------------------------------
(* Specification: Sudoku(grid) called with grids of any shape *)

ShapeLens == (9 - ShapeSlack)..(9 + ShapeSlack)

\* n rows of 9 empty cells, row "bad" (if any) of length "len" instead
Shaped(n, bad, len) == [x \in 1..n |-> [y \in 1..(IF x = bad THEN len ELSE 9) |-> None]]

ShapedGrids == {Shaped(n, bad, len) : n \in ShapeLens, bad \in 0..(9 + ShapeSlack), len \in ShapeLens}

ShapeInit ==
    /\ arg \in ShapedGrids
    /\ sudoku = Unbuilt
    /\ pc = "new"
    /\ randomly = FALSE
    /\ time_limit = <<>>
    /\ elapsed = 0
    /\ exit = "none"
    /\ twin = Unbuilt
    /\ api = NoApi
    /\ gen = NoGen

\* __init__ passes the shape check and builds the instance
Build ==
    /\ pc = "new"
    /\ shape_is_valid(arg)
    /\ sudoku' = New(arg)
    /\ pc' = "ready"
    /\ UNCHANGED <<arg, randomly, time_limit, elapsed, exit, twin, api, gen>>

\* __init__ raises IndexError("The 'grid' argument must be a 9x9 list")
RaiseShape ==
    /\ pc = "new"
    /\ ~shape_is_valid(arg)
    /\ pc' = "IndexError"
    /\ UNCHANGED <<arg, sudoku, randomly, time_limit, elapsed, exit, twin, api, gen>>

ShapeNext == Build \/ RaiseShape

ShapeSpec == ShapeInit /\ [][ShapeNext]_vars

----------------------------------------------------------------------------
(* Specification: Sudoku.create_from_81(array) next to Sudoku(grid).  "twin" *)
(* holds the instance built directly from the grid, "arg" the flat list,    *)
(* which is the grid row after row, or that list one element short or long  *)

Flatten(grid) == [k \in 1..81 |-> grid[((k - 1) \div 9) + 1][((k - 1) % 9) + 1]]

Resize(array, d) ==
    IF d < 0 THEN SubSeq(array, 1, Len(array) + d)
    ELSE array \o [i \in 1..d |-> None]

FlatInit ==
    /\ \E grid \in InputGrids, d \in (0 - FlatSlack)..FlatSlack :
          /\ arg = Resize(Flatten(grid), d)
          /\ twin = [self |-> New(grid), pc |-> "ready"]
    /\ sudoku = Unbuilt
    /\ pc = "new"
    /\ randomly = FALSE
    /\ time_limit = <<>>
    /\ elapsed = 0
    /\ exit = "none"
    /\ api = NoApi
    /\ gen = NoGen

\* create_from_81 returns the instance
FlatBuild ==
    /\ pc = "new"
    /\ create_from_81(arg).raised = "none"
    /\ sudoku' = create_from_81(arg).self
    /\ pc' = "ready"
    /\ UNCHANGED <<arg, randomly, time_limit, elapsed, exit, twin, api, gen>>

\* create_from_81 raises IndexError("The list must contain 81 elements")
FlatRaise ==
    /\ pc = "new"
    /\ create_from_81(arg).raised # "none"
    /\ pc' = create_from_81(arg).raised
    /\ UNCHANGED <<arg, sudoku, randomly, time_limit, elapsed, exit, twin, api, gen>>

FlatNext == FlatBuild \/ FlatRaise

FlatSpec == FlatInit /\ [][FlatNext]_vars

----------------------------------------------------------------------------
(* Specification: new_grid = Sudoku.generate_grid(level), then the caller   *)
(* builds Sudoku(new_grid) and calls solve().  "arg" is the level, "sudoku" *)
(* the instance generate_grid (then the caller) is working on, "elapsed"    *)
(* ends as sudoku.time, in ticks                                            *)

Transposed == [x \in 1..9 |-> [y \in 1..9 |-> Base[y][x]]]

\* the digits of the three diagonal squares of a grid, row after row
BlocksOf(grid) ==
    [b \in 1..3 |-> [k \in 1..9 |->
        grid[(b - 1) * 3 + ((k - 1) \div 3) + 1][(b - 1) * 3 + ((k - 1) % 3) + 1]]]

Rngs ==
    [blocks  : {BlocksOf(Base), BlocksOf(Transposed)},
     chooser : {"smallest", "largest"},
     offset  : 0..MaxOffset]

GenInit ==
    /\ arg \in 0..MaxLevel
    /\ sudoku = Unbuilt
    /\ pc = "generate"
    /\ randomly = FALSE
    /\ time_limit = <<>>
    /\ elapsed = 0
    /\ exit = "none"
    /\ twin = Unbuilt
    /\ api = NoApi
    /\ gen = NoGen

\* raise KeyError("'level' argument must be in Sudoku.DIFFICULTIES.keys()")
GenRaise ==
    /\ pc = "generate"
    /\ arg \notin 1..5
    /\ pc' = "KeyError"
    /\ UNCHANGED <<arg, sudoku, randomly, time_limit, elapsed, exit, twin, api, gen>>

\* the top of "while True": the diagonal squares are drawn, the grid is
\* built and solve(randomly=True) is entered
GenSeed ==
    /\ pc = "generate"
    /\ arg \in 1..5
    /\ \E rng \in Rngs :
          /\ gen' = [phase |-> "fill", rng |-> rng, new_grid |-> <<>>]
          /\ sudoku' = New(SeedGrid(rng.blocks))
    /\ pc' = "loop"
    /\ randomly' = TRUE
    /\ time_limit' = <<>>
    /\ elapsed' = 0
    /\ exit' = "none"
    /\ UNCHANGED <<arg, twin, api>>

\* what the draws make of an iteration: a write puts choice(list(values))
Drawn(self, o) ==
    IF ~randomly \/ self.empty_cells = <<>> THEN TRUE
    ELSE LET values == get_available_cell_values(self, Head(self.empty_cells))
         IN IF values = {} THEN TRUE
            ELSE o.self.history[Len(o.self.history)].data
                    = choice(gen.rng.chooser, values)

\* the clock readings of the solve under way; one tick past max_time stands
\* for every later reading
GenReadings == elapsed..(DIFFICULTIES[arg].max_time + 1)

\* one pass of the loop of the solve under way that the time limit lets go on
GenIterate ==
    /\ pc = "loop"
    /\ gen.phase \in {"fill", "trial", "resolve"}
    /\ ~solved(sudoku)
    /\ sudoku.total_moves < GenMaxMoves
    /\ IF LimitSet(time_limit)
       THEN \E t \in GenReadings : time_limit[1] > t /\ elapsed' = t
       ELSE elapsed' = elapsed
    /\ \E o \in Iteration(sudoku, randomly) :
          /\ Drawn(sudoku, o)
          /\ sudoku' = Landing(o)
          /\ pc' = After(o.exit)
          /\ exit' = o.exit
    /\ UNCHANGED <<arg, randomly, time_limit, twin, api, gen>>

\* the solve under way finds "while not self.solved" false; the last reading
\* of the clock is self.time
GenExitSolved ==
    /\ pc = "loop"
    /\ gen.phase \in {"fill", "trial", "resolve"}
    /\ solved(sudoku)
    /\ sudoku' = Finish(sudoku)
    /\ pc' = "done"
    /\ exit' = "solved"
    /\ IF LimitSet(time_limit)
       THEN \E t \in GenReadings : elapsed' = t
       ELSE elapsed' = elapsed
    /\ UNCHANGED <<arg, randomly, time_limit, twin, api, gen>>

\* the solve under way is stopped by its time limit
GenExitTimeLimit ==
    /\ pc = "loop"
    /\ gen.phase \in {"fill", "trial", "resolve"}
    /\ ~solved(sudoku)
    /\ LimitSet(time_limit)
    /\ \E t \in GenReadings :
          /\ time_limit[1] <= t
          /\ elapsed' = t
    /\ sudoku' = Finish([sudoku EXCEPT !.status = "time_limit_exceeded"])
    /\ pc' = "done"
    /\ exit' = "time_limit_exceeded"
    /\ UNCHANGED <<arg, randomly, time_limit, twin, api, gen>>

\* the filled grid loses "empty_cells" digits and
\* Sudoku(new_grid).solve(time_limit=max_time) is entered
GenRemove ==
    /\ pc = "done"
    /\ gen.phase = "fill"
    /\ LET new_grid == Emptied(sudoku.solved_grid, Coordinates, 0,
                                DIFFICULTIES[arg].empty_cells, gen.rng)
       IN /\ gen' = [gen EXCEPT !.phase = "trial", !.new_grid = new_grid]
          /\ sudoku' = New(new_grid)
    /\ pc' = "loop"
    /\ randomly' = FALSE
    /\ time_limit' = <<DIFFICULTIES[arg].max_time>>
    /\ elapsed' = 0
    /\ exit' = "none"
    /\ UNCHANGED <<arg, twin, api>>

\* "if sudoku.solved and sudoku.time >= level_info["min_time"]": return new_grid
GenReturn ==
    /\ pc = "done"
    /\ gen.phase = "trial"
    /\ solved(sudoku) /\ elapsed >= DIFFICULTIES[arg].min_time
    /\ gen' = [gen EXCEPT !.phase = "returned"]
    /\ pc' = "returned"
    /\ UNCHANGED <<arg, sudoku, randomly, time_limit, elapsed, exit, twin, api>>

\* the test fails: back to the top of "while True"
GenRetry ==
    /\ pc = "done"
    /\ gen.phase = "trial"
    /\ ~(solved(sudoku) /\ elapsed >= DIFFICULTIES[arg].min_time)
    /\ gen' = NoGen
    /\ sudoku' = Unbuilt
    /\ pc' = "generate"
    /\ randomly' = FALSE
    /\ time_limit' = <<>>
    /\ elapsed' = 0
    /\ exit' = "none"
    /\ UNCHANGED <<arg, twin, api>>

\* the caller: Sudoku(new_grid).solve()
GenResolve ==
    /\ pc = "returned"
    /\ gen' = [gen EXCEPT !.phase = "resolve"]
    /\ sudoku' = New(gen.new_grid)
    /\ pc' = "loop"
    /\ randomly' = FALSE
    /\ time_limit' = <<>>
    /\ elapsed' = 0
    /\ exit' = "none"
    /\ UNCHANGED <<arg, twin, api>>

GenNext ==
    \/ GenRaise \/ GenSeed \/ GenIterate \/ GenExitSolved \/ GenExitTimeLimit
    \/ GenRemove \/ GenReturn \/ GenRetry \/ GenResolve

GenSpec == GenInit /\ [][GenNext]_vars

----------------------------------------------------------------------------
(* Specification: Sudoku(grid) on a grid of Python values of any type: the  *)
(* completed grid with two of its cells given some other value              *)

SeedCells == {<<1, 1>>, <<5, 5>>}

Seeds ==
    {[type |-> "int", value |-> n] : n \in (0 - 1)..MaxSeed}
    \cup {[type |-> "float", tenths |-> t] : t \in {0 - 5, 5, 50, 57, 99, 102}}
    \cup {[type |-> "str", text |-> c] :
             c \in {<<>>, <<"5">>, <<"1", "2">>, <<"a">>, <<"-", "3">>, <<"5", ".", "7">>}}
    \cup {[type |-> "bool", value |-> b] : b \in BOOLEAN}
    \cup {[type |-> "NoneType"], [type |-> "list"]}

ValueGrids ==
    {[x \in 1..9 |-> [y \in 1..9 |->
        IF <<x, y>> \in SeedCells THEN seed[<<x, y>>]
        ELSE [type |-> "int", value |-> Base[x][y]]]] : seed \in [SeedCells -> Seeds]}

ValueInit ==
    /\ arg \in ValueGrids
    /\ sudoku = Unbuilt
    /\ pc = "new"
    /\ randomly = FALSE
    /\ time_limit = <<>>
    /\ elapsed = 0
    /\ exit = "none"
    /\ twin = Unbuilt
    /\ api = NoApi
    /\ gen = NoGen

\* __init__ builds the instance
ValueBuild ==
    /\ pc = "new"
    /\ NewOfValues(arg).raised = "none"
    /\ sudoku' = NewOfValues(arg).self
    /\ pc' = "ready"
    /\ UNCHANGED <<arg, randomly, time_limit, elapsed, exit, twin, api, gen>>

\* a Cell cannot be built: the TypeError leaves __init__
ValueRaise ==
    /\ pc = "new"
    /\ NewOfValues(arg).raised # "none"
    /\ pc' = NewOfValues(arg).raised
    /\ UNCHANGED <<arg, sudoku, randomly, time_limit, elapsed, exit, twin, api, gen>>

ValueNext == ValueBuild \/ ValueRaise

ValueSpec == ValueInit /\ [][ValueNext]_vars

----------------------------------------------------------------------------
(* Vocabulary of the properties: the rules of Sudoku stated on a plain     *)
(* 9x9 grid, independently of the solver's own helpers                      *)

Positions == (1..9) \X (1..9)

Units ==
    {{<<x, y>> : y \in 1..9} : x \in 1..9}
    \cup {{<<x, y>> : x \in 1..9} : y \in 1..9}
    \cup {{p \in Positions : ((p[1] - 1) \div 3) * 3 + ((p[2] - 1) \div 3) = b} : b \in 0..8}

\* the values the cells of an instance hold now, as a 9x9 grid
GridNow(self) == [x \in 1..9 |-> [y \in 1..9 |-> self.cells[(x - 1) * 9 + y].data]]

\* each row, column and block holds each of 1..9 (once, as a unit has 9 cells)
GridValid(g) == \A u \in Units : {g[p[1]][p[2]] : p \in u} = 1..9

\* no digit twice among the non-empty cells of a unit
NoRepeat(g) ==
    \A u \in Units : \A p, q \in u :
        (p # q /\ g[p[1]][p[2]] # 0) => g[p[1]][p[2]] # g[q[1]][q[2]]

\* some row holds the same digit in two of its cells
RowRepeat(g) ==
    \E x \in 1..9 : \E y, z \in 1..9 : y # z /\ g[x][y] # 0 /\ g[x][y] = g[x][z]

FullInput(g) == \A p \in Positions : g[p[1]][p[2]] \in 1..9

\* every given digit is still in its cell
GivensKept(g, h) == \A p \in Positions : g[p[1]][p[2]] # 0 => h[p[1]][p[2]] = g[p[1]][p[2]]

Fits(g, p, d) ==
    \A u \in Units : p \in u => \A q \in u : g[q[1]][q[2]] # d

RECURSIVE Completable(_)
\* some assignment of digits to the empty cells of g makes the grid valid
Completable(g) ==
    IF FullInput(g) THEN GridValid(g)
    ELSE LET p == CHOOSE q \in Positions : g[q[1]][q[2]] = 0
         IN \E d \in 1..9 :
               /\ Fits(g, p, d)
               /\ Completable([g EXCEPT ![p[1]][p[2]] = d])

NoLimit == time_limit = <<>>

----------------------------------------------------------------------------
(* Claims checked under Spec *)

\* C1: after solve returns, status tells why the loop ended: "solved" exactly
\* when it ended on the solved condition, "time_limit_exceeded" after the
\* time-limit break, "no_valid_solution" after undo reported failure.
C1_StatusReflectsExit ==
    pc = "done" =>
        /\ (sudoku.status = "solved") <=> (exit = "solved")
        /\ exit = "time_limit_exceeded" => sudoku.status = "time_limit_exceeded"
        /\ exit = "no_valid_solution" => sudoku.status = "no_valid_solution"

\* C2: solve without a time limit terminates.  Stated as what a finite run
\* refutes: once moves were made the loop is never again at its starting
\* configuration (empty stack, the input's cells, the input's empty_cells),
\* from where the same search would start over with moves below zero and the
\* solved condition out of reach.
C2_SolveTerminates ==
    (pc = "loop" /\ NoLimit /\ sudoku.total_moves > 0) =>
        ~ /\ sudoku.history = <<>>
          /\ sudoku.cells = New(arg).cells
          /\ sudoku.empty_cells = New(arg).empty_cells

\* C3: an input with a digit twice in a row ends, without time limit, with
\* status "no_valid_solution" and solved false.
C3_RowRepeatUnsolvable ==
    (pc = "done" /\ NoLimit /\ RowRepeat(arg)) =>
        sudoku.status = "no_valid_solution" /\ ~solved(sudoku)

C5_SearchComplete ==
    (NoLimit /\ NoRepeat(arg)) =>
        /\ pc = "done" => (solved(sudoku) <=> Completable(arg))
        /\ (pc = "IndexError") => ~Completable(arg)
        /\ (pc = "loop" /\ ~solved(sudoku) /\ sudoku.total_moves >= MaxTotalMoves)
              => ~Completable(arg)

C5_Witness ==
    /\ pc = "done" /\ NoLimit /\ NoRepeat(arg) /\ randomly
    /\ Completable(arg) /\ solved(sudoku)
    /\ sudoku.total_moves > sudoku.required_moves

\* C7: in every state moves is the number of entries on the backtracking
\* stack, which is the number of initially-empty cells that hold a value,
\* and it is never negative.
C7_MovesCountsStack ==
    pc \in {"ready", "loop", "done"} =>
        LET given == generate_cells(arg) IN
        /\ sudoku.moves = Len(sudoku.history)
        /\ sudoku.moves = Cardinality({k \in DOMAIN sudoku.cells :
                              given[k].data = None /\ sudoku.cells[k].data # None})
        /\ sudoku.moves >= 0

\* C10: built from a grid with no empty cell, the instance is solved at
\* once, and solve makes no move: status "solved", total_moves 0, every
\* cell as given.
C10_FullGridSolved ==
    (FullInput(arg) /\ pc \in {"ready", "loop", "done"}) =>
        /\ solved(sudoku)
        /\ sudoku.total_moves = 0
        /\ GridNow(sudoku) = arg
        /\ pc = "done" => sudoku.status = "solved" /\ sudoku.solved_grid = arg

C10_Witness ==
    FullInput(arg) /\ pc = "done" /\ LimitSet(time_limit) /\ sudoku.status = "solved"

\* entry i of the audit log as it reads now: the logged set is the object's
\* present content
Logged(self, i) ==
    [action |-> self.complete_history[i].action,
     cell   |-> self.complete_history[i].cell,
     data   |-> self.complete_history[i].data,
     values |-> self.sets[self.complete_history[i].values]]

\* C11: complete_history is append-only: every step leaves each entry
\* already logged as it was (action, cell, value, remaining candidates) and
\* only adds entries at the end.
C11_AuditAppendOnly ==
    [][/\ Len(sudoku'.complete_history) >= Len(sudoku.complete_history)
       /\ \A i \in DOMAIN sudoku.complete_history :
             Logged(sudoku', i) = Logged(sudoku, i)]_vars

\* C15: from an input grid without a repeated digit in any row, column or
\* block, no area has a repeated digit after any step of solve: what a write
\* or an undo puts in a cell is not yet in the cell's row, column or block.
C15_NoRepeatKept == NoRepeat(arg) => NoRepeat(GridNow(sudoku))

\* undo has put another value in a cell of a grid that began without repeats
C15_Witness ==
    /\ NoRepeat(arg)
    /\ pc = "loop"
    /\ \E i \in 1..(Len(sudoku.complete_history) - 1) :
          /\ sudoku.complete_history[i].action = "undo"
          /\ sudoku.complete_history[i + 1].action = "write"
          /\ sudoku.complete_history[i + 1].cell = sudoku.complete_history[i].cell

\* the cells of the backtracking stack, bottom first
StackCells(self) == [i \in DOMAIN self.history |-> self.history[i].cell]

\* the positions of the empty cells of the input grid, row after row
InitiallyEmpty(grid) == {k \in 1..81 : grid[((k - 1) \div 9) + 1][((k - 1) % 9) + 1] = None}

Ascending(seq) == \A i, j \in DOMAIN seq : i < j => seq[i] < seq[j]

\* C16: at the top of every loop iteration, the cells of the stack followed
\* by the cells of empty_cells are the initially empty cells in row-major
\* order; empty_cells holds exactly the cells that are empty now, each once,
\* and no cell is both on the stack and in the queue.
C16_StackThenQueue ==
    pc = "loop" =>
        /\ Ascending(StackCells(sudoku) \o sudoku.empty_cells)
        /\ {(StackCells(sudoku) \o sudoku.empty_cells)[i] :
                i \in 1..(Len(sudoku.history) + Len(sudoku.empty_cells))}
              = InitiallyEmpty(arg)
        /\ {sudoku.empty_cells[i] : i \in DOMAIN sudoku.empty_cells}
              = {k \in 1..81 : sudoku.cells[k].data = None}

\* a cascade has put two cells back in the queue, and some cell is on the stack
C16_Witness ==
    /\ pc = "loop"
    /\ Len(sudoku.empty_cells) >= 2
    /\ Len(sudoku.history) >= 1
    /\ \E i \in 1..(Len(sudoku.complete_history) - 1) :
          /\ sudoku.complete_history[i].action = "undo"
          /\ sudoku.complete_history[i + 1].action = "undo"

\* C17: in every state of solve, solved (moves = required_moves) holds
\* exactly when empty_cells is empty, and so the loop never reads
\* empty_cells[0] of an empty list.
C17_SolvedIffNoneEmpty ==
    /\ solved(sudoku) <=> sudoku.empty_cells = <<>>
    /\ pc # "IndexError"

\* solve ended solved after taking some move back
C17_Witness ==
    /\ pc = "done"
    /\ exit = "solved"
    /\ sudoku.empty_cells = <<>>
    /\ sudoku.required_moves >= 2
    /\ sudoku.total_moves > sudoku.required_moves

\* C19: with a time limit set, 0 included, an iteration that starts when the
\* elapsed time has reached the limit writes nothing, undoes nothing and
\* ends solve.
C19_TimeLimitStops ==
    [][(/\ pc = "loop"
        /\ ~solved(sudoku)
        /\ time_limit # <<>>
        /\ elapsed' >= time_limit[1]) =>
          /\ pc' = "done"
          /\ exit' = "time_limit_exceeded"
          /\ sudoku'.complete_history = sudoku.complete_history
          /\ sudoku'.history = sudoku.history
          /\ sudoku'.cells = sudoku.cells]_vars

\* the members of an area that hold a value, read off the rows, columns and
\* blocks of the grid
Holding(self, shape, num) ==
    {k \in 1..Len(self.cells) :
        /\ self.cells[k].data # None
        /\ CASE shape = "row"    -> (k - 1) \div 9 = num
             [] shape = "column" -> (k - 1) % 9 = num
             [] shape = "square" -> (((k - 1) \div 9) \div 3) * 3 + (((k - 1) % 9) \div 3) = num}

\* C21: in every state, the length of every area is the number of its
\* members that hold a value, and its available numbers are 1..9 without the
\* numbers its members hold, whatever was written or undone before.
C21_AreaViews ==
    sudoku # Unbuilt =>
        \A shape \in {"row", "column", "square"}, num \in 0..8 :
            /\ Area_len(sudoku.cells, shape, num)
                  = Cardinality(Holding(sudoku, shape, num))
            /\ available_numbers(sudoku.cells, shape, num)
                  = (1..9) \ {sudoku.cells[k].data : k \in Holding(sudoku, shape, num)}

\* the positions of "cells" that lie in row, column or block num of the grid
Members(shape, num) ==
    {k \in 1..81 :
        CASE shape = "row"    -> (k - 1) \div 9 = num
          [] shape = "column" -> (k - 1) % 9 = num
          [] shape = "square" -> (((k - 1) \div 9) \div 3) * 3 + (((k - 1) % 9) \div 3) = num}

\* C23: an instance built from a 9x9 grid has 81 cells, row after row, and
\* 27 areas; every area holds the 9 cells of its row, column or block, every
\* cell has square = (row / 3) * 3 + column / 3 and is linked to its own
\* row, column and block and to nothing else; solve, with its writes and
\* undos, leaves all of it as it was built.
C23_StructureKept ==
    /\ Len(sudoku.cells) = 81
    /\ \A k \in 1..81 :
          /\ sudoku.cells[k].row = (k - 1) \div 9
          /\ sudoku.cells[k].column = (k - 1) % 9
          /\ sudoku.cells[k].square
                = (sudoku.cells[k].row \div 3) * 3 + (sudoku.cells[k].column \div 3)
          /\ CellAreas(sudoku.cells, k)
                = {<<"row", (k - 1) \div 9>>, <<"column", (k - 1) % 9>>,
                   <<"square", (((k - 1) \div 9) \div 3) * 3 + (((k - 1) % 9) \div 3)>>}
          /\ CellAreas(sudoku.cells, k) \subseteq Areas
    /\ Cardinality(Areas) = 27
    /\ \A a \in Areas :
          /\ AreaCells(sudoku.cells, a[1], a[2]) = Members(a[1], a[2])
          /\ Cardinality(AreaCells(sudoku.cells, a[1], a[2])) = 9

\* solve has written and undone and has ended
C23_Witness ==
    /\ pc = "done"
    /\ Len(sudoku.cells) = 81
    /\ \E i \in DOMAIN sudoku.complete_history :
          sudoku.complete_history[i].action = "undo"
    /\ \E i \in DOMAIN sudoku.complete_history :
          sudoku.complete_history[i].action = "write"

----------------------------------------------------------------------------
(* Claims checked under ApiSpec *)

Written == {api.calls[i].cell : i \in DOMAIN api.calls}

AllLoggedEmpty == \A i \in DOMAIN api.calls : api.calls[i].values = {}

Added(self, after) ==
    SubSeq(after.complete_history, Len(self.complete_history) + 1,
           Len(after.complete_history))

\* the number of cells one call of undo cleared: every "undo" entry it logged
\* but the one of the entry it rewrote
Cleared(self, after) ==
    LET added == Added(self, after)
    IN IF added # <<>> /\ added[Len(added)].action = "write"
       THEN Len(added) - 2
       ELSE Len(added)

\* C18: a call of undo on a non-empty history pops entries down to the first
\* one that has other values left: the cells of the entries without other
\* values are cleared and put at the front of empty_cells, the entry with
\* other values is rewritten, and moves goes down by the number of cells
\* cleared.
C18_CascadeCountsCleared ==
    [][(api'.undos = api.undos + 1 /\ sudoku.history # <<>>) =>
          /\ Len(sudoku'.empty_cells) = Len(sudoku.empty_cells) + Cleared(sudoku, sudoku')
          /\ Len(sudoku'.history) = Len(sudoku.history) - Cleared(sudoku, sudoku')
          /\ \A i \in 1..Cleared(sudoku, sudoku') :
                /\ sudoku.sets[Added(sudoku, sudoku')[i].values] = {}
                /\ sudoku'.empty_cells[Cleared(sudoku, sudoku') + 1 - i]
                      = Added(sudoku, sudoku')[i].cell
          /\ sudoku'.moves = sudoku.moves - Cleared(sudoku, sudoku')]_vars

\* the number of "write" entries of the audit log
WriteEntries(self) ==
    Cardinality({i \in DOMAIN self.complete_history :
                    self.complete_history[i].action = "write"})

\* C20: write_and_log sets the given cell to the given digit and no other
\* cell, adds one to moves and to total_moves, and appends one "write" entry
\* to history and to complete_history; so total_moves is the number of
\* "write" entries of complete_history and never goes down.
C20_WriteCounted ==
    [][/\ Len(api'.calls) = Len(api.calls) + 1 =>
             LET call == api'.calls[Len(api'.calls)]
                 last == Len(sudoku'.complete_history)
             IN /\ sudoku'.cells = [sudoku.cells EXCEPT ![call.cell].data = call.data]
                /\ sudoku'.moves = sudoku.moves + 1
                /\ sudoku'.total_moves = sudoku.total_moves + 1
                /\ last = Len(sudoku.complete_history) + 1
                /\ sudoku'.complete_history =
                      Append(sudoku.complete_history, sudoku'.complete_history[last])
                /\ sudoku'.history =
                      Append(sudoku.history, sudoku'.complete_history[last])
                /\ Logged(sudoku', last) =
                      [action |-> "write", cell |-> call.cell, data |-> call.data,
                       values |-> call.values]
       /\ sudoku'.total_moves = WriteEntries(sudoku')
       /\ sudoku'.total_moves >= sudoku.total_moves]_vars

\* after three writes, two calls of undo have each written another value
C20_Witness ==
    /\ Len(api.calls) = 3
    /\ api.undos = 2
    /\ sudoku.total_moves = 5
    /\ WriteEntries(sudoku) = 5

----------------------------------------------------------------------------
(* Claims checked under TwinSpec *)

SameRuns == twin.pc = pc /\ twin.self = sudoku

\* the digit of every move on the stack is below / above all the values
\* logged with it
ChoseSmallest(self) ==
    \A i \in DOMAIN self.history :
        \A w \in self.sets[self.history[i].values] : self.history[i].data < w

ChoseLargest(self) ==
    \A i \in DOMAIN self.history :
        \A w \in self.sets[self.history[i].values] : self.history[i].data > w

----------------------------------------------------------------------------
(* Claims checked under FlatSpec *)

\* C14: create_from_81 of the row-major flattening of a 9x9 grid builds the
\* puzzle that the grid itself builds: the same 81 cells (values and
\* coordinates), the same empty_cells in the same order, the same
\* required_moves; a flat list whose length is not 81 raises IndexError.
C14_FlatRoundTrip ==
    pc # "new" =>
        /\ pc = "IndexError" <=> Len(arg) # 81
        /\ pc = "ready" =>
              /\ sudoku.cells = twin.self.cells
              /\ sudoku.empty_cells = twin.self.empty_cells
              /\ sudoku.required_moves = twin.self.required_moves
              /\ sudoku = twin.self

\* a grid with three empty cells went through the flat list
C14_Witness ==
    /\ pc = "ready"
    /\ Len(arg) = 81
    /\ sudoku.required_moves = 3
    /\ sudoku.grid = twin.self.grid

----------------------------------------------------------------------------
(* Claims checked under GenSpec *)

\* the number of empty cells of a 9x9 grid
Holes(g) == Cardinality({p \in Positions : g[p[1]][p[2]] = None})

\* C13: the grid generate_grid(level) returns has as many empty cells as the
\* level says (45 for easy), its digits are those of one completed grid
\* that obeys the rules, and solve() on it, as it comes, ends solved.
C13_GeneratedGrid ==
    /\ gen.phase \in {"returned", "resolve"} =>
          Holes(gen.new_grid) = DIFFICULTIES[arg].empty_cells
    /\ gen.phase = "returned" =>
          /\ GridValid(GridNow(sudoku))
          /\ GivensKept(gen.new_grid, GridNow(sudoku))
    /\ (gen.phase = "resolve" /\ pc # "loop") =>
          /\ pc = "done"
          /\ exit = "solved"
          /\ solved(sudoku)
          /\ GridValid(GridNow(sudoku))
          /\ GivensKept(gen.new_grid, GridNow(sudoku))

\* an easy grid came back with 45 empty cells and the caller's solve has
\* solved it, taking some moves back on the way
C13_Witness ==
    /\ arg = 1
    /\ gen.phase = "resolve"
    /\ pc = "done"
    /\ Holes(gen.new_grid) = 45
    /\ solved(sudoku)
    /\ sudoku.total_moves > 45

\* C22: generate_grid returns a candidate only if its solve ended solved,
\* was not stopped by the time limit, and took a time between min_time and
\* max_time of the level; any other candidate is dropped and the loop goes
\* back to the seeding.
C22_AcceptsInWindow ==
    [][(gen.phase = "trial" /\ pc = "done") =>
          IF gen'.phase = "returned"
          THEN /\ solved(sudoku)
               /\ exit = "solved"
               /\ elapsed >= DIFFICULTIES[arg].min_time
               /\ elapsed <= DIFFICULTIES[arg].max_time
               /\ gen'.new_grid = gen.new_grid
          ELSE /\ pc' = "generate"
               /\ gen' = NoGen
               /\ sudoku' = Unbuilt]_vars

----------------------------------------------------------------------------
(* Claims checked under ValueSpec *)

\* the value is an integer from 1 to 9
IsDigit(v) == v.type = "int" /\ v.value \in 1..9

\* C24: a cell holds the value it was given when that is an integer from 1
\* to 9 and is empty for any other value (0, a negative number, a number
\* above 9, a number that is not an integer, a value that is not a number,
\* None); required_moves is the number of cells whose value was not an integer
\* from 1 to 9.
C24_CellNormalizes ==
    pc # "new" =>
        /\ pc = "ready"
        /\ \A p \in Positions :
              sudoku.cells[(p[1] - 1) * 9 + p[2]].data
                 = IF IsDigit(arg[p[1]][p[2]]) THEN arg[p[1]][p[2]].value ELSE None
        /\ sudoku.required_moves
              = Cardinality({p \in Positions : ~IsDigit(arg[p[1]][p[2]])})

----------------------------------------------------------------------------
(* Claims checked under ShapeSpec *)

BadShape(g) == Len(g) # 9 \/ \E x \in 1..Len(g) : Len(g[x]) # 9

\* C9: constructing from a grid that has not exactly 9 rows, or has a row
\* whose length is not 9, raises the shape error and builds no instance.
C9_BadShapeRaises ==
    (pc # "new" /\ BadShape(arg)) => (pc = "IndexError" /\ sudoku = Unbuilt)

====
